---- MODULE Spec2Model ----
(***************************************************************************)
(* Flip clock (bluenoe/flip-clock): the tick -> getTimeParts -> render ->  *)
(* flip-animation pipeline of src/js/main.js, clock.js and renderer.js,    *)
(* with the settings, timezone and sound modules it calls.                 *)
(*                                                                         *)
(* Strings of digits ("13", "000000") are tuples of one-character strings. *)
(* Time is in milliseconds since page load; a Date is the second of the    *)
(* UTC day it denotes.                                                     *)
(***************************************************************************)
EXTENDS Integers, Sequences, FiniteSets, TLC

VARIABLES
  initPc,           \* position of initApp: "start", "awaitTimezones", "running"
  storage,          \* localStorage item 'flip-clock-settings'
  currentSettings,  \* main.js currentSettings
  currentTimezone,  \* timezone.js currentTimezone
  clockElements,    \* renderer.js clockElements: the digit positions registered
  previousTime,     \* renderer.js previousTime
  textContent,      \* textContent of the six digit elements
  flipClass,        \* position -> element has class 'flip-animation'
  timeouts,         \* position -> due times of the pending setTimeout callbacks
  ampmText,         \* textContent of #ampmIndicator
  ampmShow,         \* #ampmIndicator has class 'show'
  clockInterval,    \* main.js clockInterval: due time of the next interval tick, -1 = null
  hidden,           \* document.hidden
  soundEnabled,     \* sound.js soundEnabled
  userHasInteracted,\* sound.js userHasInteracted
  audio,            \* sound.js audioContext/tickBuffer: "none", "loading", "ready", "failed"
  now,              \* milliseconds elapsed since page load
  epoch,            \* second of the UTC day at page load
  hourCycle24,      \* hour cycle the Intl engine resolves for en-US with hour12:false
  lastRender,       \* history: the latest render call
  lastTrigger,      \* history: position -> time of its latest flip trigger, -1 = never
  overlap,          \* history: position -> latest trigger came while a timeout was pending
  lastPlayed,       \* history: the latest updateClock started a tick sound
  lastRun,          \* history: the latest run of updateClock
  activeIntervals,  \* number of interval timers created by setInterval
  lastTick,         \* history: the latest run of the interval callback
  userEvents,       \* number of user events so far
  eventBudget,      \* number of user events the run may have
  tickHorizon,      \* no interval tick of the run after this time
  fmtArgs,          \* arguments of a getTimeParts call under test
  fmtResult,        \* its result
  stArgs,           \* store and arguments of a settings.js call under test
  stResult,         \* its result
  swState,          \* sw.js: life cycle of the worker: "parsed", "installed", "active"
  cacheStorage,     \* sw.js: caches: cache name -> (url -> response)
  swActivated,      \* history: the cache storage before and after the activate handler
  swLast,           \* history: the latest fetch event and its answer
  searchValue,      \* timezone.js picker: searchInput.value
  dropdownOptions,  \* the .timezone-option rows of the dropdown
  dropdownShow,     \* the dropdown has class 'show'
  selectedIndex,    \* selectedIndex of setupTimezonePicker
  lastSelect        \* history: the latest call of onSelect

vars == << initPc, storage, currentSettings, currentTimezone, clockElements,
           previousTime, textContent, flipClass, timeouts, ampmText, ampmShow,
           clockInterval, hidden, soundEnabled, userHasInteracted, audio, now,
           epoch, hourCycle24, lastRender, lastTrigger, overlap,
           lastPlayed, lastRun, activeIntervals, lastTick, userEvents,
           eventBudget, tickHorizon, fmtArgs, fmtResult, stArgs, stResult, swState,
           cacheStorage, swActivated, swLast, searchValue, dropdownOptions,
           dropdownShow, selectedIndex, lastSelect >>

(***************************************************************************)
(* Bounds                                                                  *)
(***************************************************************************)
MaxNow == 1000       \* no user event at or after this time
MaxTick == 2000      \* no interval tick after this time, in the specifications with fairness
Quantum == 500       \* largest step of time between two deadlines
MaxEvents == 2       \* number of user events (clicks, selections, tab switches)
MaxLiveEvents == 1   \* the same, in the specification with fairness

(***************************************************************************)
(* Program constants                                                       *)
(***************************************************************************)
FlipDuration == 600   \* renderer.js:59  setTimeout(..., 600)
TickInterval == 1000  \* main.js:120     setInterval(updateClock, 1000)
DaySeconds == 24 * 3600

Positions == 1..6
Keys == << "h1", "h2", "m1", "m2", "s1", "s2" >>
DigitChars == << "0", "1", "2", "3", "4", "5", "6", "7", "8", "9" >>
DigitSet == { DigitChars[i] : i \in 1..10 }
Sentinel == << "0", "0", "0", "0", "0", "0" >>

(***************************************************************************)
(* The runtime: time zones known to the Intl engine and the local zone.    *)
(***************************************************************************)
ValidZones == { "UTC", "Asia/Tokyo" }
LocalZone == "Asia/Tokyo"
ZoneIds == ValidZones \cup { "Mars/Olympus" }

UtcOffset(tz) ==
  CASE tz = "UTC" -> 0
    [] tz = "Asia/Tokyo" -> 9 * 3600

\* wall-clock fields of instant date (second of the UTC day) in zone tz
ZoneSeconds(date, tz) == (date + UtcOffset(tz) + DaySeconds) % DaySeconds
HourOf(sec) == sec \div 3600
MinuteOf(sec) == (sec \div 60) % 60
SecondOf(sec) == sec % 60

\* String(n) and String(n).padStart(2, '0') for 0 <= n <= 99
NumToStr(n) == IF n < 10 THEN << DigitChars[n + 1] >>
               ELSE << DigitChars[(n \div 10) + 1], DigitChars[(n % 10) + 1] >>
PadStart2(str) == IF Len(str) < 2 THEN << "0" >> \o str ELSE str

\* str[i] || dflt  (i is the 0-based JavaScript index)
CharOr(str, i, dflt) == IF i + 1 <= Len(str) THEN str[i + 1] ELSE dflt

(***************************************************************************)
(* clock.js getTimeParts                                                   *)
(***************************************************************************)
Thrown == [ error |-> "RangeError" ]

\* hour field of Intl.DateTimeFormat('en-US', {hour:'2-digit', hour12: is12h}).
\* With hour12:true en-US counts 12, 1, ..., 11.  With hour12:false the code
\* leaves the hour cycle to the engine: engines that resolve it to h23 count
\* 00..23, engines that resolve it to h24 (en-US defaults to h12, and ECMA-402
\* up to the 2023 edition maps that to h24; V8 does) write midnight as 24.
IntlHour(h, is12h, hc) ==
  IF is12h THEN PadStart2(NumToStr(IF h % 12 = 0 THEN 12 ELSE h % 12))
  ELSE IF hc = "h24" /\ h = 0 THEN << "2", "4" >>
  ELSE PadStart2(NumToStr(h))

\* formatter.formatToParts(date)
FormatToParts(date, tz, is12h, hc) ==
  LET sec == ZoneSeconds(date, tz)
      hms == << [ type |-> "hour",   value |-> IntlHour(HourOf(sec), is12h, hc) ],
                [ type |-> "literal", value |-> << ":" >> ],
                [ type |-> "minute", value |-> PadStart2(NumToStr(MinuteOf(sec))) ],
                [ type |-> "literal", value |-> << ":" >> ],
                [ type |-> "second", value |-> PadStart2(NumToStr(SecondOf(sec))) ] >>
  IN IF is12h
     THEN hms \o << [ type |-> "literal", value |-> << " " >> ],
                    [ type |-> "dayPeriod",
                      value |-> IF HourOf(sec) >= 12 THEN "PM" ELSE "AM" ] >>
     ELSE hms

\* the value the forEach of lines 27-33 leaves for a part type, or dflt
PartOr(parts, type, dflt) ==
  LET idx == { i \in 1..Len(parts) : parts[i].type = type }
  IN IF idx = {} THEN dflt
     ELSE parts[CHOOSE i \in idx : \A j \in idx : j <= i].value

\* the try block, lines 14-48
IntlPath(date, tz, is12h, hc) ==
  IF tz \notin ValidZones THEN Thrown
  ELSE LET parts == FormatToParts(date, tz, is12h, hc)
           hour == PartOr(parts, "hour", << "0", "0" >>)
           minute == PartOr(parts, "minute", << "0", "0" >>)
           second == PartOr(parts, "second", << "0", "0" >>)
       IN [ h1 |-> CharOr(hour, 0, "0"), h2 |-> CharOr(hour, 1, "0"),
            m1 |-> CharOr(minute, 0, "0"), m2 |-> CharOr(minute, 1, "0"),
            s1 |-> CharOr(second, 0, "0"), s2 |-> CharOr(second, 1, "0"),
            ampm |-> PartOr(parts, "dayPeriod", "") ]

Hours12Wrong(hours) == hours % 12
\* lines 58-59: hours = hours % 12; if (hours === 0) hours = 12
Hours12(hours) == IF hours % 12 = 0 THEN 12 ELSE hours % 12

FallbackAmpmWrong(hours, is12h) == ""
\* lines 54-57
FallbackAmpm(hours, is12h) ==
  IF is12h THEN (IF hours >= 12 THEN "PM" ELSE "AM") ELSE ""

\* the catch block, lines 49-75: sysNow is what new Date() reads
FallbackPath(sysNow, is12h) ==
  LET sec == ZoneSeconds(sysNow, LocalZone)
      hours == HourOf(sec)
      h == PadStart2(NumToStr(IF is12h THEN Hours12(hours) ELSE hours))
      m == PadStart2(NumToStr(MinuteOf(sec)))
      s == PadStart2(NumToStr(SecondOf(sec)))
  IN [ h1 |-> h[1], h2 |-> h[2], m1 |-> m[1], m2 |-> m[2],
       s1 |-> s[1], s2 |-> s[2], ampm |-> FallbackAmpm(hours, is12h) ]

getTimePartsNoCatch(date, tz, is12h, sysNow, hc) == IntlPath(date, tz, is12h, hc)
getTimeParts(date, tz, is12h, sysNow, hc) ==
  LET r == IntlPath(date, tz, is12h, hc)
  IN IF r = Thrown THEN FallbackPath(sysNow, is12h) ELSE r

(***************************************************************************)
(* settings.js                                                             *)
(***************************************************************************)
DEFAULTS == [ soundOn |-> FALSE, is12h |-> FALSE, theme |-> "dark",
              primary |-> "#66a3ff", timezone |-> LocalZone ]

\* { ...a, ...b }
Spread(a, b) ==
  [ k \in DOMAIN a \cup DOMAIN b |-> IF k \in DOMAIN b THEN b[k] ELSE a[k] ]

\* the localStorage item: no item, text that is not JSON, a store whose
\* access raises, or the text of a JSON object
Absent == [ kind |-> "absent" ]
Corrupt == [ kind |-> "corrupt" ]
Unreadable == [ kind |-> "unreadable" ]
Json(obj) == [ kind |-> "json", obj |-> obj ]

\* the JavaScript value undefined; of the settings only the string-valued
\* ones are ever given it
Undefined == "<undefined>"
StringKeys == { "theme", "primary", "timezone" }

\* JSON.parse(JSON.stringify(obj)), lines 37 and 21: a key whose value is
\* undefined is left out of the text
Stringify(obj) ==
  [ k \in { j \in DOMAIN obj : ~(j \in StringKeys /\ obj[j] = Undefined) }
      |-> obj[k] ]

\* lines 19-23: getItem and JSON.parse, either of which may raise
ParseStore(store) ==
  IF store.kind \in { "unreadable", "corrupt" } THEN Thrown
  ELSE IF store.kind = "json" THEN store.obj
  ELSE Absent

loadSettingsWrong(store) ==
  LET parsed == ParseStore(store)
  IN IF parsed = Thrown \/ parsed = Absent THEN DEFAULTS ELSE parsed
\* lines 17-28
loadSettings(store) ==
  LET parsed == ParseStore(store)
  IN IF parsed = Thrown \/ parsed = Absent THEN DEFAULTS
     ELSE Spread(DEFAULTS, parsed)

saveSettingsWrong(store, partial, writable) ==
  IF writable /\ store.kind # "unreadable"
  THEN Json(Stringify(Spread(DEFAULTS, partial)))
  ELSE store
\* lines 34-42: the item after the call; a setItem that raises (writable is
\* false, or the store cannot be accessed at all) is caught at line 39
saveSettings(store, partial, writable) ==
  IF writable /\ store.kind # "unreadable"
  THEN Json(Stringify(Spread(loadSettings(store), partial)))
  ELSE store

(***************************************************************************)
(* timezone.js setTimezone: the value of currentTimezone after the call    *)
(***************************************************************************)
setTimezoneWrong(cur, timezoneId) == timezoneId
\* a timeZone option that is undefined is an option not given: no error
setTimezone(cur, timezoneId) ==
  IF timezoneId \in ValidZones \cup { Undefined } THEN timezoneId ELSE cur

(***************************************************************************)
(* renderer.js                                                             *)
(***************************************************************************)
AllElements == { Keys[i] : i \in Positions } \cup { "ampm" }

CurrentTimeWrong(timeParts) ==
  [ i \in Positions |-> IF i = 6 THEN "0" ELSE timeParts[Keys[i]] ]
\* line 36: keys.map(key => timeParts[key]).join('')
CurrentTime(timeParts) == [ i \in Positions |-> timeParts[Keys[i]] ]

\* lines 39-45: the positions whose branch "newDigit !== oldDigit" is taken
Changed(timeParts, prev, elems) ==
  { i \in Positions : Keys[i] \in elems /\ timeParts[Keys[i]] # prev[i] }

AddTimeoutWrong(pending, due) == pending
\* lines 57-59: setTimeout(..., 600) adds a callback; none is ever cleared
AddTimeout(pending, due) == pending \cup { due }

\* line 81
ResetValue == Sentinel

\* what new Date() reads: the second of the UTC day
SystemClock == (epoch + (now \div 1000)) % DaySeconds

\* render(timeParts) with previousTime = prev and clockElements = elems; reset
\* tells whether resetState ran in the same handler
Render(timeParts, prev, elems, reset) ==
  LET changed == Changed(timeParts, prev, elems)
  IN /\ textContent' = [ i \in Positions |->
          IF i \in changed THEN timeParts[Keys[i]] ELSE textContent[i] ]
     /\ flipClass' = [ i \in Positions |-> (i \in changed) \/ flipClass[i] ]
     /\ timeouts' = [ i \in Positions |->
          IF i \in changed THEN AddTimeout(timeouts[i], now + FlipDuration)
          ELSE timeouts[i] ]
     /\ IF "ampm" \in elems
        THEN IF timeParts.ampm # ""
             THEN ampmText' = timeParts.ampm /\ ampmShow' = TRUE
             ELSE ampmText' = ampmText /\ ampmShow' = FALSE
        ELSE UNCHANGED << ampmText, ampmShow >>
     /\ previousTime' = CurrentTime(timeParts)
     /\ lastRender' = [ done |-> TRUE, parts |-> timeParts, prev |-> prev,
                        flipped |-> changed, at |-> now,
                        fresh |-> reset \/ ~lastRender.done ]
     /\ lastTrigger' = [ i \in Positions |->
          IF i \in changed THEN now ELSE lastTrigger[i] ]
     /\ overlap' = [ i \in Positions |->
          IF i \in changed THEN timeouts[i] # {} ELSE overlap[i] ]

(***************************************************************************)
(* sound.js playTick: whether a sound is started                           *)
(***************************************************************************)
playTickWrong(enabled, aud, hid) == enabled /\ aud = "ready"
playTick(enabled, aud, hid) == enabled /\ aud = "ready" /\ ~hid

(***************************************************************************)
(* main.js updateClock, run with the settings, timezone, previousTime and   *)
(* clockElements its handler has set before calling it                     *)
(***************************************************************************)
\* lines 128-139 in the order they are executed; the sound hook is the call of
\* line 138
PipelineStepsWrong(soundOn) ==
  (IF soundOn THEN << "playTick" >> ELSE << >>)
    \o << "sample", "format", "render", "state" >>
PipelineSteps(soundOn) ==
  << "sample", "format", "render", "state" >>
    \o (IF soundOn THEN << "playTick" >> ELSE << >>)

updateClock(settings, tz, prev, elems, sndEnabled, aud, hid, reset) ==
  LET timeParts == getTimeParts(SystemClock, tz, settings.is12h,
                                SystemClock, hourCycle24)
      played == settings.soundOn /\ playTick(sndEnabled, aud, hid)
  IN /\ Render(timeParts, prev, elems, reset)
     /\ lastPlayed' = played
     /\ lastRun' = [ done |-> TRUE, steps |-> PipelineSteps(settings.soundOn),
                     soundOn |-> settings.soundOn, enabled |-> sndEnabled,
                     interacted |-> userHasInteracted, audio |-> aud,
                     hidden |-> hid, played |-> played, at |-> now ]

(***************************************************************************)
(* Initial states                                                          *)
(***************************************************************************)
\* 14:59:59 UTC, one second before midnight in Asia/Tokyo
StartInstants == { 53999 }

StoredItems ==
  { Absent, Corrupt,
    Json([ is12h |-> TRUE, soundOn |-> TRUE, timezone |-> "UTC" ]),
    Json([ timezone |-> "Mars/Olympus" ]) }

NoRender == [ done |-> FALSE ]
NoArgs == [ called |-> FALSE ]
NoTick == [ at |-> -1, threw |-> FALSE, thrown |-> 0 ]

\* module state after the imports of main.js are evaluated; the six digit
\* elements of the page show 0, the value the sentinel of renderer.js line 6
\* stands for
InitModules ==
  /\ initPc = "start"
  /\ currentSettings = [ k \in {} |-> FALSE ]
  /\ currentTimezone = "UTC"
  /\ clockElements = {}
  /\ previousTime = Sentinel
  /\ textContent = Sentinel
  /\ flipClass = [ i \in Positions |-> FALSE ]
  /\ timeouts = [ i \in Positions |-> {} ]
  /\ ampmText = ""
  /\ ampmShow = FALSE
  /\ clockInterval = -1
  /\ soundEnabled = FALSE
  /\ userHasInteracted = FALSE
  /\ audio = "none"
  /\ now = 0
  /\ lastRender = NoRender
  /\ lastTrigger = [ i \in Positions |-> -1 ]
  /\ overlap = [ i \in Positions |-> FALSE ]
  /\ lastPlayed = FALSE
  /\ lastRun = NoRender
  /\ activeIntervals = 0
  /\ lastTick = NoTick
  /\ userEvents = 0

\* no service worker script has run
SwIdle ==
  /\ swState = "parsed"
  /\ cacheStorage = << >>
  /\ swActivated = NoArgs
  /\ swLast = NoArgs

\* the picker before any event on it
PickerIdle ==
  /\ searchValue = << >>
  /\ dropdownOptions = << >>
  /\ dropdownShow = FALSE
  /\ selectedIndex = -1
  /\ lastSelect = NoArgs

Init ==
  /\ InitModules
  /\ eventBudget = MaxEvents
  /\ tickHorizon = MaxNow
  /\ storage \in StoredItems
  /\ hidden = FALSE
  /\ epoch \in StartInstants
  /\ hourCycle24 = "h23"   \* both hour cycles are run in SpecFmt
  /\ fmtArgs = NoArgs
  /\ fmtResult = NoArgs
  /\ stArgs = NoArgs
  /\ stResult = NoArgs
  /\ SwIdle
  /\ PickerIdle

rendererVars == << previousTime, textContent, flipClass, timeouts, ampmText,
                   ampmShow, lastRender, lastTrigger, overlap >>
soundVars == << soundEnabled, userHasInteracted, audio >>
swVars == << swState, cacheStorage, swActivated, swLast >>
pickerVars == << searchValue, dropdownOptions, dropdownShow, selectedIndex,
                lastSelect >>
envVars == << epoch, hourCycle24, eventBudget, tickHorizon, fmtArgs, fmtResult, stArgs,
             stResult, swVars, pickerVars >>
timerVars == << activeIntervals, lastTick >>
UserEvent == now < MaxNow /\ userEvents < eventBudget /\ userEvents' = userEvents + 1

(***************************************************************************)
(* main.js startClock                                                      *)
(***************************************************************************)
\* line 120: the interval of setInterval(updateClock, 1000) is due again one
\* interval after a run at t, whether the run returned or raised; nothing
\* clears it
RearmWrong(t) == -1
Rearm(t) == t + TickInterval

\* line 120 creates one interval timer
IntervalsAfterStart(n) == n + 1

\* lines 127-140: updateClock creates none; the forced updates of lines 180,
\* 229 and 243 call updateClock, not startClock
IntervalsAfterUpdateWrong(n) == n + 1
IntervalsAfterUpdate(n) == n

(***************************************************************************)
(* main.js initApp                                                         *)
(***************************************************************************)
\* lines 26-35: up to the await of initTimezones()
InitAppBegin ==
  /\ initPc = "start"
  /\ initPc' = "awaitTimezones"
  /\ currentSettings' = loadSettings(storage)
  /\ UNCHANGED << storage, currentTimezone, clockElements, rendererVars,
                  clockInterval, hidden, soundVars, now, lastPlayed, lastRun,
                  timerVars, userEvents, envVars >>

\* lines 36-57: initClock, setTimezone, setupUI, startClock
InitAppResume ==
  /\ initPc = "awaitTimezones"
  /\ initPc' = "running"
  /\ clockElements' = AllElements
  /\ currentTimezone' = setTimezone(currentTimezone, currentSettings.timezone)
  /\ updateClock(currentSettings, currentTimezone', previousTime, clockElements',
                 soundEnabled, audio, hidden, FALSE)
  /\ clockInterval' = now + TickInterval
  /\ activeIntervals' = IntervalsAfterStart(IntervalsAfterUpdate(activeIntervals))
  /\ UNCHANGED << storage, currentSettings, hidden, soundVars, now, lastTick,
                  userEvents, envVars >>

(***************************************************************************)
(* Timers                                                                  *)
(***************************************************************************)
\* the interval of line 120 is due
IntervalDue == clockInterval = now /\ now <= tickHorizon

\* the interval callback of line 120
IntervalTick ==
  /\ IntervalDue
  /\ updateClock(currentSettings, currentTimezone, previousTime, clockElements,
                 soundEnabled, audio, hidden, FALSE)
  /\ clockInterval' = Rearm(now)
  /\ activeIntervals' = IntervalsAfterUpdate(activeIntervals)
  /\ lastTick' = [ lastTick EXCEPT !.at = now, !.threw = FALSE ]
  /\ UNCHANGED << initPc, storage, currentSettings, currentTimezone,
                  clockElements, hidden, soundVars, now, userEvents, envVars >>

\* the interval callback of line 120 when a statement of lines 128-132 raises:
\* updateClock has no try/catch, the exception leaves the callback before
\* render is called, and the interval stays scheduled
IntervalTickThrows ==
  /\ IntervalDue
  /\ clockInterval' = Rearm(now)
  /\ lastTick' = [ at |-> now, threw |-> TRUE, thrown |-> lastTick.thrown + 1 ]
  /\ UNCHANGED << initPc, storage, currentSettings, currentTimezone,
                  clockElements, rendererVars, hidden, soundVars, now,
                  lastPlayed, lastRun, activeIntervals, userEvents, envVars >>

\* the timeout callback of renderer.js lines 57-59
FlipTimeout(p) ==
  /\ now \in timeouts[p]
  /\ flipClass' = [ flipClass EXCEPT ![p] = FALSE ]
  /\ timeouts' = [ timeouts EXCEPT ![p] = @ \ { now } ]
  /\ UNCHANGED << initPc, storage, currentSettings, currentTimezone,
                  clockElements, previousTime, textContent, ampmText, ampmShow,
                  lastRender, lastTrigger, overlap, clockInterval, hidden,
                  soundVars, now, lastPlayed, lastRun, timerVars, userEvents,
                  envVars >>

Deadlines ==
  UNION { timeouts[p] : p \in Positions }
    \cup (IF clockInterval >= 0 /\ clockInterval <= tickHorizon
          THEN { clockInterval } ELSE {})

Min(S) == CHOOSE x \in S : \A y \in S : x <= y

\* time passes up to the next deadline, at most Quantum at once
Advance ==
  /\ now \notin Deadlines
  /\ now < MaxNow \/ Deadlines # {}
  /\ now' = Min({ now + Quantum } \cup { d \in Deadlines : d > now })
  /\ UNCHANGED << initPc, storage, currentSettings, currentTimezone,
                  clockElements, rendererVars, clockInterval, hidden,
                  soundVars, lastPlayed, lastRun, timerVars, userEvents,
                  envVars >>

(***************************************************************************)
(* Event handlers of main.js                                               *)
(***************************************************************************)
\* lines 145-163, with sound.js toggleSound
HandleSoundToggle ==
  /\ initPc = "running"
  /\ UserEvent
  /\ LET newSoundState == ~currentSettings.soundOn
     IN /\ currentSettings' = [ currentSettings EXCEPT !.soundOn = newSoundState ]
        /\ storage' = saveSettings(storage, [ soundOn |-> newSoundState ], TRUE)
        /\ soundEnabled' = newSoundState
        /\ IF newSoundState /\ ~userHasInteracted
           THEN userHasInteracted' = TRUE /\ audio' = "loading"
           ELSE UNCHANGED << userHasInteracted, audio >>
  /\ UNCHANGED << initPc, currentTimezone, clockElements, rendererVars,
                  clockInterval, hidden, now, lastPlayed, lastRun, timerVars,
                  envVars >>

\* sound.js initSound, lines 19-26: the awaited fetch and decode end
InitSoundDone(ok) ==
  /\ audio = "loading"
  /\ audio' = IF ok THEN "ready" ELSE "failed"
  /\ UNCHANGED << initPc, storage, currentSettings, currentTimezone,
                  clockElements, rendererVars, clockInterval, hidden,
                  soundEnabled, userHasInteracted, now, lastPlayed, lastRun,
                  timerVars, userEvents, envVars >>

\* lines 168-183
HandleTimeFormatToggle ==
  /\ initPc = "running"
  /\ UserEvent
  /\ LET newFormat == ~currentSettings.is12h
     IN /\ currentSettings' = [ currentSettings EXCEPT !.is12h = newFormat ]
        /\ storage' = saveSettings(storage, [ is12h |-> newFormat ], TRUE)
        /\ updateClock(currentSettings', currentTimezone, previousTime, clockElements,
                       soundEnabled, audio, hidden, FALSE)
  /\ activeIntervals' = IntervalsAfterUpdate(activeIntervals)
  /\ UNCHANGED << initPc, currentTimezone, clockElements, clockInterval,
                  hidden, soundVars, now, lastTick, envVars >>

\* timezone.js selectTimezone lines 208-210 and main.js handleTimezoneChange
SelectTimezone(timezoneId) ==
  /\ initPc = "running"
  /\ UserEvent
  /\ currentTimezone' = setTimezone(currentTimezone, timezoneId)
  /\ currentSettings' = [ currentSettings EXCEPT !.timezone = timezoneId ]
  /\ storage' = saveSettings(storage, [ timezone |-> timezoneId ], TRUE)
  /\ updateClock(currentSettings', currentTimezone', ResetValue, clockElements,
                 soundEnabled, audio, hidden, TRUE)
  /\ activeIntervals' = IntervalsAfterUpdate(activeIntervals)
  /\ UNCHANGED << initPc, clockElements, clockInterval, hidden, soundVars,
                  now, lastTick, envVars >>

\* lines 237-246: the visibilitychange listener, registered at module load
VisibilityChange ==
  /\ initPc # "start"
  /\ UserEvent
  /\ hidden' = ~hidden
  /\ IF hidden'
     THEN UNCHANGED << rendererVars, lastPlayed, lastRun, activeIntervals >>
     ELSE /\ updateClock(currentSettings, currentTimezone, previousTime,
                         clockElements, soundEnabled, audio, hidden', FALSE)
          /\ activeIntervals' = IntervalsAfterUpdate(activeIntervals)
  /\ UNCHANGED << initPc, storage, currentSettings, currentTimezone,
                  clockElements, clockInterval, soundVars, now, lastTick,
                  envVars >>

Next ==
  \/ InitAppBegin
  \/ InitAppResume
  \/ IntervalTick
  \/ \E p \in Positions : FlipTimeout(p)
  \/ Advance
  \/ HandleSoundToggle
  \/ \E ok \in BOOLEAN : InitSoundDone(ok)
  \/ HandleTimeFormatToggle
  \/ \E timezoneId \in ZoneIds : SelectTimezone(timezoneId)
  \/ VisibilityChange

Spec == Init /\ [][Next]_vars

\* the same program when a run of the interval callback may raise
NextFault == Next \/ IntervalTickThrows

(***************************************************************************)
(* getTimeParts on its own: every hour of the day, in every zone and mode  *)
(***************************************************************************)
FmtMinutes == { 0, 5, 59 }
FmtSeconds == { 0, 9, 59 }
FmtDates == { h * 3600 + m * 60 + s : h \in 0..23, m \in FmtMinutes, s \in FmtSeconds }
\* 03:00:59, 14:05:09 and 15:30:00 UTC
FmtSystemClocks == { 10859, 50709, 55800 }

InitFmt ==
  /\ InitModules
  /\ eventBudget = 0
  /\ tickHorizon = 0
  /\ storage = Absent
  /\ hidden = FALSE
  /\ epoch = 0
  /\ hourCycle24 \in { "h23", "h24" }
  /\ fmtArgs \in [ date : FmtDates, timezone : ZoneIds, is12h : BOOLEAN,
                   sysNow : FmtSystemClocks ]
  /\ fmtResult = NoArgs
  /\ stArgs = NoArgs
  /\ stResult = NoArgs
  /\ SwIdle
  /\ PickerIdle

\* one call getTimeParts(date, { timezone, is12h })
CallGetTimeParts ==
  /\ fmtResult = NoArgs
  /\ fmtResult' = [ called |-> TRUE,
                    value |-> getTimeParts(fmtArgs.date, fmtArgs.timezone,
                                           fmtArgs.is12h, fmtArgs.sysNow,
                                           hourCycle24) ]
  /\ UNCHANGED << initPc, storage, currentSettings, currentTimezone,
                  clockElements, rendererVars, clockInterval, hidden,
                  soundVars, now, lastPlayed, lastRun, timerVars, userEvents,
                  epoch, hourCycle24, eventBudget, tickHorizon, fmtArgs, stArgs,
                  stResult,
                  swVars, pickerVars >>

NextFmt == CallGetTimeParts

SpecFmt == InitFmt /\ [][NextFmt]_vars

(***************************************************************************)
(* settings.js on its own: one loadSettings, or saveSettings twice with a  *)
(* loadSettings before and after                                           *)
(***************************************************************************)
StObjects ==
  { << >>,
    [ is12h |-> TRUE ],
    [ soundOn |-> TRUE, timezone |-> "UTC" ],
    [ theme |-> "light", primary |-> "#ff0000", timezone |-> "Mars/Olympus" ],
    [ soundOn |-> TRUE, is12h |-> TRUE, theme |-> "light",
      primary |-> "#ff0000", timezone |-> "UTC" ] }

StStores == { Absent, Corrupt, Unreadable } \cup { Json(o) : o \in StObjects }

StPartials ==
  { [ soundOn |-> TRUE ], [ soundOn |-> FALSE ], [ is12h |-> TRUE ],
    [ theme |-> "dark" ], [ timezone |-> "UTC" ], [ timezone |-> Undefined ] }

InitSettings ==
  /\ InitModules
  /\ eventBudget = 0
  /\ tickHorizon = 0
  /\ storage = Absent
  /\ hidden = FALSE
  /\ epoch = 0
  /\ hourCycle24 = "h23"
  /\ fmtArgs = NoArgs
  /\ fmtResult = NoArgs
  /\ stArgs \in [ store : StStores, partial : StPartials, writable : BOOLEAN ]
  /\ stResult = NoArgs
  /\ SwIdle
  /\ PickerIdle

clockVars == << initPc, storage, currentSettings, currentTimezone,
               clockElements, rendererVars, clockInterval, hidden, soundVars,
               now, lastPlayed, lastRun, timerVars, userEvents, epoch,
               hourCycle24, eventBudget, tickHorizon, fmtArgs, fmtResult >>
appVars == << clockVars, swVars, pickerVars >>

\* one call loadSettings()
CallLoadSettings ==
  /\ stResult = NoArgs
  /\ stResult' = [ called |-> TRUE, op |-> "load",
                   value |-> loadSettings(stArgs.store) ]
  /\ UNCHANGED << appVars, stArgs >>

\* loadSettings(); saveSettings(partial); loadSettings(); saveSettings(partial)
CallSaveSettings ==
  /\ stResult = NoArgs
  /\ LET once == saveSettings(stArgs.store, stArgs.partial, stArgs.writable)
     IN stResult' = [ called |-> TRUE, op |-> "save",
                      before |-> loadSettings(stArgs.store),
                      once |-> once,
                      after |-> loadSettings(once),
                      twice |-> saveSettings(once, stArgs.partial,
                                             stArgs.writable) ]
  /\ UNCHANGED << appVars, stArgs >>

NextSettings == CallLoadSettings \/ CallSaveSettings

SpecSettings == InitSettings /\ [][NextSettings]_vars

(***************************************************************************)
(* sw.js: the service worker.  A cache name is the pair of the part the    *)
(* test of line 68 looks at and the rest; a url is a host and a path.      *)
(***************************************************************************)
CACHE_VERSION == "flip-clock-v1.0.0"
CACHE_NAME == << "flip-clock-", CACHE_VERSION >>
FONT_CACHE == << "flip-clock-", "fonts-v1" >>
\* the static cache of the version deployed before, and a cache of another
\* script of the same origin
OldCache == << "flip-clock-", "flip-clock-v0.9.0" >>
ForeignCache == << "workbox-", "precache-v2" >>

StartsWith(cacheName, prefix) == cacheName[1] = prefix

STATIC_FILES ==
  { "/", "/index.html", "/manifest.json", "/src/css/base.css",
    "/src/css/theme.css", "/src/css/flip.css", "/src/js/main.js",
    "/src/js/clock.js", "/src/js/renderer.js", "/src/js/sound.js",
    "/src/js/settings.js", "/src/js/theme.js", "/src/js/timezone.js",
    "/src/js/pwa.js", "/src/data/timezones.json", "/icons/192.png",
    "/icons/512.png", "/audio/tick.mp3" }

Url(host, path) == [ host |-> host, path |-> path ]
Origin == "self"
FontUrl == Url("fonts.gstatic.com", "/s/roboto.woff2")

isStaticFile(url) == url.path \in STATIC_FILES
isGoogleFont(url) == url.host \in { "fonts.googleapis.com", "fonts.gstatic.com" }
isNavigationRequest(request) == request.mode = "navigate"

\* a response, the rejection of a promise, and the undefined of cache.match
Response(url, status, body) == [ url |-> url, status |-> status, body |-> body ]
Rejected == [ rejected |-> TRUE ]
NoMatch == [ matched |-> FALSE ]
\* lines 221-247
OfflinePage == [ status |-> "200", body |-> "offline" ]

\* what the network does with a fetch: it fails, or answers with a status
NetOutcomes == { "error", "200", "404" }
Fetch(url, net) ==
  IF net = "error" THEN Rejected ELSE Response(url, net, "network")

\* caches.open creates the cache when there is none
Open(cs, cacheName) ==
  IF cacheName \in DOMAIN cs THEN cs
  ELSE [ n \in DOMAIN cs \cup { cacheName } |->
           IF n \in DOMAIN cs THEN cs[n] ELSE << >> ]

Match(cs, cacheName, url) ==
  IF cacheName \in DOMAIN cs /\ url \in DOMAIN cs[cacheName]
  THEN cs[cacheName][url] ELSE NoMatch

Put(cs, cacheName, url, response) ==
  [ cs EXCEPT ![cacheName] =
      [ u \in DOMAIN @ \cup { url } |-> IF u = url THEN response ELSE @[u] ] ]

\* lines 36-54: addAll stores every file or none; its failure is caught
Installed(cs, ok) ==
  LET opened == Open(cs, CACHE_NAME)
  IN IF ok
     THEN [ opened EXCEPT ![CACHE_NAME] =
              [ u \in DOMAIN @ \cup { Url(Origin, f) : f \in STATIC_FILES } |->
                  IF u.host = Origin /\ u.path \in STATIC_FILES
                  THEN Response(u, "200", "installed") ELSE @[u] ] ]
     ELSE opened

\* line 68: the caches the activate handler deletes
IsDeleted(cacheName) ==
  StartsWith(cacheName, "flip-clock-") /\ cacheName # CACHE_NAME

\* lines 63-74
Activated(cs) == [ n \in { m \in DOMAIN cs : ~IsDeleted(m) } |-> cs[n] ]

\* the strategies: the settled value of the promise, the cache storage
\* afterwards, and whether fetch was called
Answer(result, caches, fetched) ==
  [ result |-> result, storage |-> caches, fetched |-> fetched ]

cacheFirstWrong(cs, request, net) ==
  LET opened == Open(cs, CACHE_NAME)
      cachedResponse == Match(opened, CACHE_NAME, request.url)
      networkResponse == Fetch(request.url, net)
  IN IF cachedResponse # NoMatch THEN Answer(cachedResponse, opened, FALSE)
     ELSE IF networkResponse = Rejected THEN Answer(Rejected, opened, TRUE)
     ELSE Answer(networkResponse,
                 Put(opened, CACHE_NAME, request.url, networkResponse), TRUE)
\* lines 136-157
cacheFirst(cs, request, net) ==
  LET opened == Open(cs, CACHE_NAME)
      cachedResponse == Match(opened, CACHE_NAME, request.url)
      networkResponse == Fetch(request.url, net)
  IN IF cachedResponse # NoMatch THEN Answer(cachedResponse, opened, FALSE)
     ELSE IF networkResponse = Rejected THEN Answer(Rejected, opened, TRUE)
     ELSE Answer(networkResponse,
                 IF networkResponse.status = "200"
                 THEN Put(opened, CACHE_NAME, request.url, networkResponse)
                 ELSE opened,
                 TRUE)

\* lines 162-181
staleWhileRevalidate(cs, request, cacheName, net) ==
  LET opened == Open(cs, cacheName)
      cachedResponse == Match(opened, cacheName, request.url)
      networkResponse == Fetch(request.url, net)
      updated == IF networkResponse # Rejected /\ net = "200"
                 THEN Put(opened, cacheName, request.url, networkResponse)
                 ELSE opened
  IN Answer(IF cachedResponse # NoMatch THEN cachedResponse ELSE networkResponse,
            updated, TRUE)

\* lines 186-200
networkFirst(cs, request, net) ==
  LET networkResponse == Fetch(request.url, net)
      opened == Open(cs, CACHE_NAME)
      cachedResponse == Match(opened, CACHE_NAME, request.url)
  IN IF networkResponse # Rejected THEN Answer(networkResponse, cs, TRUE)
     ELSE Answer(IF cachedResponse # NoMatch THEN cachedResponse ELSE Rejected,
                 opened, TRUE)

navigationHandlerWrong(cs, request, net) ==
  LET networkResponse == Fetch(request.url, net)
      opened == Open(cs, CACHE_NAME)
      index == Match(opened, CACHE_NAME, Url(Origin, "/index.html"))
  IN IF networkResponse # Rejected THEN Answer(networkResponse, cs, TRUE)
     ELSE Answer(IF index # NoMatch THEN index ELSE Rejected, opened, TRUE)
\* lines 205-249
navigationHandler(cs, request, net) ==
  LET networkResponse == Fetch(request.url, net)
      opened == Open(cs, CACHE_NAME)
      index == Match(opened, CACHE_NAME, Url(Origin, "/index.html"))
      root == Match(opened, CACHE_NAME, Url(Origin, "/"))
  IN IF networkResponse # Rejected THEN Answer(networkResponse, cs, TRUE)
     ELSE Answer(IF index # NoMatch THEN index
                 ELSE IF root # NoMatch THEN root
                 ELSE OfflinePage,
                 opened, TRUE)

\* lines 91-104: the strategy the fetch handler answers a GET request with
Strategy(request) ==
  IF isStaticFile(request.url) THEN "cacheFirst"
  ELSE IF isGoogleFont(request.url) THEN "staleWhileRevalidate"
  ELSE IF isNavigationRequest(request) THEN "navigationHandler"
  ELSE "networkFirst"

Respond(cs, request, net) ==
  IF Strategy(request) = "cacheFirst" THEN cacheFirst(cs, request, net)
  ELSE IF Strategy(request) = "staleWhileRevalidate"
       THEN staleWhileRevalidate(cs, request, FONT_CACHE, net)
  ELSE IF Strategy(request) = "navigationHandler"
       THEN navigationHandler(cs, request, net)
  ELSE networkFirst(cs, request, net)

Request(method, url, mode) == [ method |-> method, url |-> url, mode |-> mode ]

SwRequests ==
  { Request("GET", Url(Origin, "/"), "navigate"),
    Request("GET", Url(Origin, "/index.html"), "navigate"),
    Request("GET", Url(Origin, "/src/js/main.js"), "no-cors"),
    Request("GET", Url(Origin, "/settings"), "navigate"),
    Request("GET", Url(Origin, "/api/time"), "cors"),
    Request("GET", FontUrl, "no-cors"),
    Request("POST", Url(Origin, "/index.html"), "cors") }

\* the caches of the origin when the worker script is first run
StoredCaches ==
  [ n \in { OldCache, FONT_CACHE, ForeignCache } |->
      IF n = OldCache
      THEN [ u \in { Url(Origin, "/index.html") } |-> Response(u, "200", "old") ]
      ELSE IF n = FONT_CACHE
      THEN [ u \in { FontUrl } |-> Response(u, "200", "cached font") ]
      ELSE [ u \in { Url(Origin, "/app.js") } |-> Response(u, "200", "foreign") ] ]

InitSW ==
  /\ InitModules
  /\ eventBudget = 0
  /\ tickHorizon = 0
  /\ storage = Absent
  /\ hidden = FALSE
  /\ epoch = 0
  /\ hourCycle24 = "h23"
  /\ fmtArgs = NoArgs
  /\ fmtResult = NoArgs
  /\ stArgs = NoArgs
  /\ stResult = NoArgs
  /\ PickerIdle
  /\ swState = "parsed"
  /\ \E names \in SUBSET DOMAIN StoredCaches :
       cacheStorage = [ n \in names |-> StoredCaches[n] ]
  /\ swActivated = NoArgs
  /\ swLast = NoArgs

\* lines 36-54
InstallEvent(ok) ==
  /\ swState = "parsed"
  /\ swState' = "installed"
  /\ cacheStorage' = Installed(cacheStorage, ok)
  /\ UNCHANGED << clockVars, stArgs, stResult, pickerVars, swActivated, swLast >>

\* lines 59-81
ActivateEvent ==
  /\ swState = "installed"
  /\ swState' = "active"
  /\ cacheStorage' = Activated(cacheStorage)
  /\ swActivated' = [ called |-> TRUE, before |-> cacheStorage,
                      after |-> cacheStorage' ]
  /\ UNCHANGED << clockVars, stArgs, stResult, pickerVars, swLast >>

\* lines 86-106
FetchEvent(request, net) ==
  /\ swState = "active"
  /\ IF request.method = "GET"
     THEN LET answer == Respond(cacheStorage, request, net)
          IN /\ cacheStorage' = answer.storage
             /\ swLast' = [ called |-> TRUE, request |-> request, net |-> net,
                            answered |-> TRUE, strategy |-> Strategy(request),
                            fetched |-> answer.fetched,
                            result |-> answer.result,
                            before |-> cacheStorage ]
     ELSE /\ cacheStorage' = cacheStorage
          /\ swLast' = [ called |-> TRUE, request |-> request, net |-> net,
                         answered |-> FALSE, strategy |-> "none",
                         fetched |-> FALSE, result |-> NoMatch,
                         before |-> cacheStorage ]
  /\ UNCHANGED << clockVars, stArgs, stResult, pickerVars, swState, swActivated >>

NextSW ==
  \/ \E ok \in BOOLEAN : InstallEvent(ok)
  \/ ActivateEvent
  \/ \E request \in SwRequests, net \in NetOutcomes : FetchEvent(request, net)

SpecSW == InitSW /\ [][NextSW]_vars

(***************************************************************************)
(* timezone.js: the timezone picker.  A text is the tuple of its           *)
(* characters.                                                             *)
(***************************************************************************)
UpperCase == << "A", "B", "C", "D", "E", "F", "G", "H", "I", "J", "K", "L", "M",
               "N", "O", "P", "Q", "R", "S", "T", "U", "V", "W", "X", "Y", "Z" >>
LowerCase == << "a", "b", "c", "d", "e", "f", "g", "h", "i", "j", "k", "l", "m",
               "n", "o", "p", "q", "r", "s", "t", "u", "v", "w", "x", "y", "z" >>

\* String.prototype.toLowerCase
toLowerCase(text) ==
  [ i \in DOMAIN text |->
      IF \E k \in DOMAIN UpperCase : UpperCase[k] = text[i]
      THEN LowerCase[CHOOSE k \in DOMAIN UpperCase : UpperCase[k] = text[i]]
      ELSE text[i] ]

\* String.prototype.includes
Includes(text, part) ==
  \E i \in 0..(Len(text) - Len(part)) :
    SubSeq(text, i + 1, i + Len(part)) = part

\* query.trim() is the empty string
IsBlank(text) == \A i \in DOMAIN text : text[i] = " "

\* Array.prototype.slice(0, n)
Slice(list, n) == SubSeq(list, 1, IF Len(list) < n THEN Len(list) ELSE n)

MaxResults == 10

\* the catalogue: two entries of the list of lines 19-30
Timezones ==
  << [ id |-> "UTC",
       idText |-> << "U", "T", "C" >>,
       label |-> << "U", "T", "C", " ", "(", "C", "o", "o", "r", "d",
                "i", "n", "a", "t", "e", "d", " ", "U", "n", "i",
                "v", "e", "r", "s", "a", "l", " ", "T", "i", "m",
                "e", ")" >> ],
     [ id |-> "Asia/Tokyo",
       idText |-> << "A", "s", "i", "a", "/", "T", "o", "k", "y",
                 "o" >>,
       label |-> << "T", "o", "k", "y", "o", " ", "(", "J", "S", "T",
                ")" >> ] >>

CatalogueIds == { Timezones[i].id : i \in DOMAIN Timezones }

\* Array.prototype.filter
RECURSIVE Filter(_, _)
Filter(list, lowerQuery) ==
  IF list = << >> THEN << >>
  ELSE (IF \/ Includes(toLowerCase(Head(list).label), lowerQuery)
           \/ Includes(toLowerCase(Head(list).idText), lowerQuery)
        THEN << Head(list) >> ELSE << >>)
       \o Filter(Tail(list), lowerQuery)

\* lines 39-49
searchTimezones(query) ==
  IF IsBlank(query) THEN Slice(Timezones, MaxResults)
  ELSE Slice(Filter(Timezones, toLowerCase(query)), MaxResults)

\* line 168: the row shown when nothing matches; it has no data-timezone
NoTimezonesRow == [ text |-> "No timezones found" ]

\* lines 162-181: the rows of the dropdown
renderDropdown(results) ==
  IF Len(results) = 0 THEN << NoTimezonesRow >>
  ELSE [ i \in DOMAIN results |-> [ timezone |-> results[i].id ] ]

\* option.dataset.timezone
DatasetTimezone(option) ==
  IF "timezone" \in DOMAIN option THEN option.timezone ELSE Undefined

\* lines 201-206: the text put in the search input
SelectedText(timezoneId) ==
  IF \E i \in DOMAIN Timezones : Timezones[i].id = timezoneId
  THEN Timezones[CHOOSE i \in DOMAIN Timezones : Timezones[i].id = timezoneId].label
  ELSE << "u", "n", "d", "e", "f", "i", "n", "e", "d" >>

\* what the user types
Queries ==
  { << >>, << " " >>, << "T", "o" >>, << "u" >>, << "t" >>, << "z", "z" >> }

InitPicker ==
  /\ InitModules
  /\ eventBudget = 0
  /\ tickHorizon = 0
  /\ storage = Absent
  /\ hidden = FALSE
  /\ epoch = 0
  /\ hourCycle24 = "h23"
  /\ fmtArgs = NoArgs
  /\ fmtResult = NoArgs
  /\ stArgs = NoArgs
  /\ stResult = NoArgs
  /\ SwIdle
  /\ searchValue \in { Timezones[i].label : i \in DOMAIN Timezones }
  /\ dropdownOptions = << >>
  /\ dropdownShow = FALSE
  /\ selectedIndex = -1
  /\ lastSelect = NoArgs

pickerFrame == << initPc, storage, currentSettings, clockElements, rendererVars,
                 clockInterval, hidden, soundVars, now, lastPlayed, lastRun,
                 timerVars, userEvents, epoch, hourCycle24, eventBudget,
                 tickHorizon,
                 fmtArgs, fmtResult, stArgs, stResult, swVars >>

\* lines 200-211: selectTimezone; what onSelect (handleTimezoneChange) does
\* with the identifier is the action SelectTimezone
selectTimezone(timezoneId) ==
  /\ searchValue' = SelectedText(timezoneId)
  /\ dropdownShow' = FALSE
  /\ currentTimezone' = setTimezone(currentTimezone, timezoneId)
  /\ lastSelect' = [ called |-> TRUE, id |-> timezoneId,
                     rendered |-> dropdownOptions ]

\* lines 106-111
InputEvent(query) ==
  /\ searchValue' = query
  /\ dropdownOptions' = renderDropdown(searchTimezones(query))
  /\ dropdownShow' = TRUE
  /\ selectedIndex' = -1
  /\ UNCHANGED << pickerFrame, currentTimezone, lastSelect >>

\* lines 118-122
KeyArrowDown ==
  /\ selectedIndex' = IF selectedIndex + 1 < Len(dropdownOptions) - 1
                      THEN selectedIndex + 1 ELSE Len(dropdownOptions) - 1
  /\ UNCHANGED << pickerFrame, currentTimezone, searchValue, dropdownOptions,
                  dropdownShow, lastSelect >>

\* lines 124-128
KeyArrowUp ==
  /\ selectedIndex' = IF selectedIndex - 1 > -1 THEN selectedIndex - 1 ELSE -1
  /\ UNCHANGED << pickerFrame, currentTimezone, searchValue, dropdownOptions,
                  dropdownShow, lastSelect >>

\* lines 130-136
KeyEnter ==
  /\ selectedIndex >= 0
  /\ selectedIndex < Len(dropdownOptions)
  /\ selectTimezone(DatasetTimezone(dropdownOptions[selectedIndex + 1]))
  /\ UNCHANGED << pickerFrame, dropdownOptions, selectedIndex >>

\* lines 138-141
KeyEscape ==
  /\ dropdownShow' = FALSE
  /\ selectedIndex' = -1
  /\ UNCHANGED << pickerFrame, currentTimezone, searchValue, dropdownOptions,
                  lastSelect >>

\* lines 146-149
FocusEvent ==
  /\ dropdownOptions' = renderDropdown(searchTimezones(searchValue))
  /\ dropdownShow' = TRUE
  /\ UNCHANGED << pickerFrame, currentTimezone, searchValue, selectedIndex,
                  lastSelect >>

\* lines 174-176: the click listener of a shown option
ClickOption(i) ==
  /\ dropdownShow
  /\ i \in DOMAIN dropdownOptions
  /\ "timezone" \in DOMAIN dropdownOptions[i]
  /\ selectTimezone(dropdownOptions[i].timezone)
  /\ UNCHANGED << pickerFrame, dropdownOptions, selectedIndex >>

\* lines 152-156
ClickOutside ==
  /\ dropdownShow' = FALSE
  /\ UNCHANGED << pickerFrame, currentTimezone, searchValue, dropdownOptions,
                  selectedIndex, lastSelect >>

NextPicker ==
  \/ \E query \in Queries : InputEvent(query)
  \/ KeyArrowDown
  \/ KeyArrowUp
  \/ KeyEnter
  \/ KeyEscape
  \/ FocusEvent
  \/ \E i \in 1..MaxResults : ClickOption(i)
  \/ ClickOutside

SpecPicker == InitPicker /\ [][NextPicker]_vars

(***************************************************************************)
(* Properties                                                              *)
(***************************************************************************)
TwoDigits(n) == << DigitChars[(n \div 10) + 1], DigitChars[(n % 10) + 1] >>
DigitsOf(tp) == << tp.h1, tp.h2, tp.m1, tp.m2, tp.s1, tp.s2 >>

\* the path a call takes and the wall-clock second of the day it formats
FmtOnIntlPath == fmtArgs.timezone \in ValidZones
FmtWallSeconds ==
  IF FmtOnIntlPath THEN ZoneSeconds(fmtArgs.date, fmtArgs.timezone)
  ELSE ZoneSeconds(fmtArgs.sysNow, LocalZone)
FmtHourOfDay == FmtWallSeconds \div 3600

\* C1: after every render the digit shown at each of the six positions is the
\* digit of the TimeParts that was just rendered.
C1_ShownIsRendered ==
  lastRender.done =>
    \A i \in Positions : textContent[i] = lastRender.parts[Keys[i]]

\* C2: a render that follows resetState, and the first render after startup,
\* flips all six positions whatever the new digits are.
C2_ResetFlipsAll ==
  (lastRender.done /\ lastRender.fresh) => lastRender.flipped = Positions

\* C3: getTimeParts returns exactly the six digit fields, each one character
\* of '0'..'9', and a period label that is empty iff 24-hour mode is selected
\* and is "AM" or "PM" in 12-hour mode, on the Intl and the fallback path.
C3_SixDigitsAndPeriod ==
  fmtResult.called =>
    LET tp == fmtResult.value
    IN /\ DOMAIN tp = { "h1", "h2", "m1", "m2", "s1", "s2", "ampm" }
       /\ \A i \in Positions : tp[Keys[i]] \in DigitSet
       /\ (tp.ampm = "") <=> ~fmtArgs.is12h
       /\ fmtArgs.is12h => tp.ampm \in { "AM", "PM" }

C3_Witness ==
  /\ fmtResult.called
  /\ fmtArgs.is12h
  /\ ~FmtOnIntlPath
  /\ fmtResult.value.ampm = "PM"

\* C4: in 12-hour mode the hour digits are the zero-padded value of
\* ((h + 11) mod 12) + 1 for the hour of the day h, and the period is "AM"
\* when h < 12 and "PM" otherwise, on the Intl and the fallback path.
C4_TwelveHourMapping ==
  (fmtResult.called /\ fmtArgs.is12h) =>
    LET tp == fmtResult.value
        h == FmtHourOfDay
    IN /\ << tp.h1, tp.h2 >> = TwoDigits(((h + 11) % 12) + 1)
       /\ tp.ampm = IF h < 12 THEN "AM" ELSE "PM"

C4_Witness ==
  /\ fmtResult.called
  /\ fmtArgs.is12h
  /\ ~FmtOnIntlPath
  /\ FmtHourOfDay = 0
  /\ << fmtResult.value.h1, fmtResult.value.h2 >> = << "1", "2" >>
  /\ fmtResult.value.ampm = "AM"

\* C5: in 24-hour mode the six digits are the zero-padded hour (00..23,
\* midnight as 00), minute and second, and the period label is empty.
C5_TwentyFourHourDigits ==
  (fmtResult.called /\ ~fmtArgs.is12h) =>
    LET tp == fmtResult.value
        sec == FmtWallSeconds
    IN /\ DigitsOf(tp) = TwoDigits(sec \div 3600) \o TwoDigits((sec \div 60) % 60)
                           \o TwoDigits(sec % 60)
       /\ tp.ampm = ""

\* C6: getTimeParts never raises: with an invalid timezone it returns the
\* digits and period of the local system clock in the local zone, in the
\* requested 12h/24h mode.
C6_NeverRaises ==
  fmtResult.called =>
    LET tp == fmtResult.value
        sec == ZoneSeconds(fmtArgs.sysNow, LocalZone)
        h == sec \div 3600
    IN /\ tp # Thrown
       /\ "h1" \in DOMAIN tp
       /\ ~FmtOnIntlPath =>
            /\ DigitsOf(tp) =
                 TwoDigits(IF fmtArgs.is12h THEN ((h + 11) % 12) + 1 ELSE h)
                   \o TwoDigits((sec \div 60) % 60) \o TwoDigits(sec % 60)
            /\ tp.ampm = IF fmtArgs.is12h
                         THEN (IF h < 12 THEN "AM" ELSE "PM") ELSE ""

C6_Witness ==
  /\ fmtResult.called
  /\ fmtArgs.timezone = "Mars/Olympus"
  /\ ~fmtArgs.is12h
  /\ DigitsOf(fmtResult.value) = << "2", "3", "0", "5", "0", "9" >>

\* C7: the positions a render flips are exactly the indices where the new
\* digit differs from the stored previousTime; none flips iff the six new
\* digits equal previousTime.
C7_FlippedIsDiff ==
  lastRender.done =>
    /\ lastRender.flipped =
         { i \in Positions : lastRender.parts[Keys[i]] # lastRender.prev[i] }
    /\ (lastRender.flipped = {}) <=> (DigitsOf(lastRender.parts) = lastRender.prev)

\* C8: a position triggered again while it is flipping stays flipping until
\* 600ms after the latest trigger; the timer of the earlier trigger does not
\* end it.
C8_RestartFromLatest ==
  \A p \in Positions :
    (lastTrigger[p] >= 0 /\ now < lastTrigger[p] + 600) => flipClass[p]

\* the flipping window of a position whose latest trigger came with no
\* timeout of an earlier trigger pending
C9_WindowOfSingleTrigger ==
  \A p \in Positions :
    (lastTrigger[p] >= 0 /\ ~overlap[p]) =>
      /\ now < lastTrigger[p] + 600 => flipClass[p]
      /\ now > lastTrigger[p] + 600 => ~flipClass[p]

\* C9: after a single trigger on p at time T (no other trigger in flight) p is
\* flipping at every time before T + 600ms and idle at every time after it,
\* and every position that starts flipping eventually returns to idle.
C9_SingleFlipEnds ==
  /\ []C9_WindowOfSingleTrigger
  /\ \A p \in Positions : flipClass[p] ~> ~flipClass[p]

C9_Witness ==
  \E p \in Positions :
    /\ lastTrigger[p] >= 0
    /\ ~overlap[p]
    /\ now > lastTrigger[p] + 600
    /\ ~flipClass[p]
    /\ lastRender.at > lastTrigger[p]

\* previousTime against the latest render
C10_State ==
  /\ ~lastRender.done => previousTime = Sentinel
  /\ lastRender.done => previousTime = DigitsOf(lastRender.parts)
  /\ (lastRender.done /\ lastRender.fresh) => lastRender.prev = Sentinel

\* C10: previousTime is "000000" at startup and right after resetState, and
\* after every render it is the concatenation of the six digits rendered;
\* only a handler that renders changes it.
C10_DisplayState ==
  /\ []C10_State
  /\ [][previousTime' # previousTime => lastRender' # lastRender]_vars

C10_Witness ==
  /\ lastRender.done
  /\ lastRender.fresh
  /\ lastRender.at > 0
  /\ lastRender.prev # textContent
  /\ previousTime # Sentinel

\* the timers of the event loop run: a due timeout callback is executed, time
\* passes, and a due interval callback is executed (IntervalDue is the
\* enabling condition of IntervalTick, which ends it: the last conjunct is
\* WF_vars(IntervalTick))
InitLive ==
  /\ InitModules
  /\ eventBudget = MaxLiveEvents
  /\ tickHorizon = MaxTick
  /\ storage = Absent
  /\ hidden = FALSE
  /\ epoch \in StartInstants
  /\ hourCycle24 = "h23"
  /\ fmtArgs = NoArgs
  /\ fmtResult = NoArgs
  /\ stArgs = NoArgs
  /\ stResult = NoArgs
  /\ SwIdle
  /\ PickerIdle

LiveSpec ==
  /\ InitLive
  /\ [][Next]_vars
  /\ WF_vars(Advance)
  /\ \A p \in Positions : WF_vars(FlipTimeout(p))
  /\ []<>~IntervalDue

\* the same timers when a run of the interval callback may raise
FaultSpec ==
  /\ InitLive
  /\ [][NextFault]_vars
  /\ WF_vars(Advance)
  /\ \A p \in Positions : WF_vars(FlipTimeout(p))
  /\ []<>~IntervalDue

\* the interval is armed and its next run is within the horizon
C11_TickOwed == clockInterval >= 0 /\ clockInterval <= tickHorizon

\* C11: an interval tick that raises leaves the display as it was and the
\* interval armed for one second later; once armed the interval is never
\* cancelled and is moved only by its own callback, and every tick that is
\* owed is eventually run.
C11_ThrowKeepsClock ==
  /\ [][clockInterval >= 0 =>
          /\ clockInterval' >= 0
          /\ clockInterval' # clockInterval =>
               /\ clockInterval = now
               /\ lastTick'.at = now
               /\ clockInterval' = now + TickInterval]_vars
  /\ [][(lastTick' # lastTick /\ lastTick'.threw) =>
          /\ rendererVars' = rendererVars
          /\ clockInterval' = now + TickInterval]_vars
  /\ C11_TickOwed ~> ~C11_TickOwed

C11_Witness ==
  /\ lastTick.thrown = 1
  /\ ~lastTick.threw
  /\ lastTick.at > TickInterval
  /\ lastRender.at = lastTick.at
  /\ clockInterval = now + TickInterval

\* C12: at most one interval timer is ever created: startClock runs at most
\* once, whatever page-load, settings, timezone and visibility events occur,
\* and clockInterval is set iff it has run.
C12_SingleInterval ==
  /\ activeIntervals <= 1
  /\ (activeIntervals = 1) <=> (clockInterval >= 0)

C12_Witness ==
  /\ activeIntervals = 1
  /\ userEvents = MaxEvents
  /\ lastRender.fresh
  /\ lastRender.at > 0
  /\ ~hidden

\* C13: every run of updateClock samples, formats, renders and updates
\* previousTime in this order before the sound hook, and calls the sound hook
\* exactly once when soundOn is set and never when it is not.
C13_PipelineOrder ==
  lastRun.done =>
    LET steps == lastRun.steps
        hooks == { i \in DOMAIN steps : steps[i] = "playTick" }
    IN /\ SubSeq(steps, 1, 4) = << "sample", "format", "render", "state" >>
       /\ Cardinality(hooks) = (IF lastRun.soundOn THEN 1 ELSE 0)
       /\ \A i \in hooks : i > 4
       /\ lastRender.done /\ lastRender.at = lastRun.at
       /\ previousTime = DigitsOf(lastRender.parts)
       /\ lastRun.played => lastRun.soundOn

C13_Witness ==
  /\ lastRun.done
  /\ lastRun.soundOn
  /\ lastRun.steps[5] = "playTick"
  /\ lastRun.at > 0
  /\ lastTick.at = lastRun.at

C15_AmpmMatchesPeriod ==
  lastRender.done =>
    /\ ampmShow <=> (lastRender.parts.ampm # "")
    /\ ampmShow => ampmText = lastRender.parts.ampm

\* C16: a run of updateClock starts a sound only if toggleSound(true) was
\* called before, the sound is enabled, the context and buffer are loaded and
\* the page is visible; while initSound is in flight nothing is played.
C16_PlayOnlyWhenReady ==
  /\ soundEnabled => userHasInteracted
  /\ audio # "none" => userHasInteracted
  /\ lastRun.done =>
       /\ lastRun.played =>
            /\ lastRun.interacted
            /\ lastRun.enabled
            /\ lastRun.audio = "ready"
            /\ ~lastRun.hidden
       /\ lastRun.audio = "loading" => ~lastRun.played

C16_Witness ==
  /\ lastRun.done
  /\ lastRun.played
  /\ lastPlayed
  /\ ~hidden

\* C17: loadSettings never raises and returns an object with every default
\* key: a key of the stored JSON object has the stored value, every other key
\* its default (timezone: the local zone); with no item, an unreadable store
\* or text that is not JSON the result is exactly the defaults.
C17_LoadMergesDefaults ==
  (stResult.called /\ stResult.op = "load") =>
    LET r == stResult.value
        store == stArgs.store
    IN /\ r # Thrown
       /\ DOMAIN DEFAULTS \subseteq DOMAIN r
       /\ store.kind = "json" =>
            \A k \in DOMAIN r :
              r[k] = IF k \in DOMAIN store.obj THEN store.obj[k] ELSE DEFAULTS[k]
       /\ store.kind # "json" => r = DEFAULTS
       /\ DEFAULTS.timezone = LocalZone

C17_Witness ==
  /\ stResult.called
  /\ stResult.op = "load"
  /\ stArgs.store.kind = "json"
  /\ stResult.value.timezone = "Mars/Olympus"
  /\ stResult.value.theme = "light"
  /\ ~stResult.value.soundOn

\* the write of a saveSettings call under test goes through
StWritten == stArgs.writable /\ stArgs.store.kind # "unreadable"

\* saving twice is saving once, and a write that fails changes nothing
C18_SaveTwiceAndFailure ==
  /\ stResult.twice = stResult.once
  /\ ~StWritten => (stResult.once = stArgs.store /\ stResult.after = stResult.before)

C19_NoRunBeforeInit ==
  initPc # "running" =>
    /\ ~lastRun.done
    /\ ~lastRender.done
    /\ previousTime = Sentinel

\* C20: after initialisation and after every timezone selection the timezone
\* the tick pipeline uses is the one in currentSettings.timezone, and an
\* identifier that setTimezone rejected is never the stored timezone.
C20_TimezoneInSync ==
  initPc = "running" =>
    /\ currentTimezone = currentSettings.timezone
    /\ currentSettings.timezone \in ValidZones
    /\ (storage.kind = "json" /\ "timezone" \in DOMAIN storage.obj /\ userEvents > 0)
         => storage.obj.timezone \in ValidZones

\* C21: after initialisation and after every sound toggle the enabled flag of
\* sound.js equals currentSettings.soundOn, also when soundOn was loaded as
\* true; so a tick on a visible page with the audio loaded and soundOn set
\* plays the sound.
C21_SoundFlagInSync ==
  /\ initPc = "running" => soundEnabled = currentSettings.soundOn
  /\ (lastRun.done /\ lastRun.soundOn /\ lastRun.audio = "ready" /\ ~lastRun.hidden)
       => lastRun.played

\* C26: getTimeParts is a function of (date, timezone, is12h): the result is
\* the same whatever the system clock reads, and its minute and second digits
\* are those of the instant passed as date.
C26_FunctionOfArguments ==
  fmtResult.called =>
    LET tp == fmtResult.value
    IN /\ \A sysNow \in FmtSystemClocks :
            getTimeParts(fmtArgs.date, fmtArgs.timezone, fmtArgs.is12h,
                         sysNow, hourCycle24) = tp
       /\ << tp.m1, tp.m2 >> = TwoDigits(MinuteOf(fmtArgs.date))
       /\ << tp.s1, tp.s2 >> = TwoDigits(SecondOf(fmtArgs.date))

\* a static cache of a version deployed before
IsOldVersion(cacheName) ==
  StartsWith(cacheName, "flip-clock-") /\ cacheName \notin { CACHE_NAME, FONT_CACHE }

\* C22: after the activate handler every 'flip-clock-' cache of a previous
\* version is gone, while the current static cache and the font cache (and
\* every other cache) still exist with their entries.
C22_ActivationKeepsCurrent ==
  swActivated.called =>
    \A n \in DOMAIN swActivated.before :
      IF IsOldVersion(n)
      THEN n \notin DOMAIN swActivated.after
      ELSE /\ n \in DOMAIN swActivated.after
           /\ swActivated.after[n] = swActivated.before[n]

\* C23: navigationHandler never rejects: it resolves with the network
\* response when the fetch succeeds, otherwise with the cached '/index.html',
\* otherwise with the cached '/', otherwise with the offline page.
C23_NavigationAlwaysAnswers ==
  (swLast.called /\ swLast.strategy = "navigationHandler") =>
    LET index == Match(swLast.before, CACHE_NAME, Url(Origin, "/index.html"))
        root == Match(swLast.before, CACHE_NAME, Url(Origin, "/"))
    IN /\ swLast.answered
       /\ swLast.result # Rejected
       /\ swLast.result # NoMatch
       /\ swLast.net # "error" =>
            swLast.result = Response(swLast.request.url, swLast.net, "network")
       /\ swLast.net = "error" =>
            swLast.result = IF index # NoMatch THEN index
                            ELSE IF root # NoMatch THEN root
                            ELSE OfflinePage

C23_Witness ==
  /\ swLast.called
  /\ swLast.strategy = "navigationHandler"
  /\ swLast.net = "error"
  /\ Match(swLast.before, CACHE_NAME, Url(Origin, "/index.html")) = NoMatch
  /\ swLast.result.body = "network"
  /\ swLast.result.url = Url(Origin, "/")

\* C24: a GET request to a static file is answered by cacheFirst: from the
\* static cache with no fetch when the request is cached; on a miss from the
\* network, and the response is stored iff its status is 200; a request whose
\* method is not GET is not answered.
C24_CacheFirst ==
  swLast.called =>
    LET request == swLast.request
        cached == Match(swLast.before, CACHE_NAME, request.url)
        stored == Match(cacheStorage, CACHE_NAME, request.url)
    IN /\ request.method # "GET" =>
            /\ ~swLast.answered
            /\ ~swLast.fetched
            /\ cacheStorage = swLast.before
       /\ (request.method = "GET" /\ isStaticFile(request.url)) =>
            /\ swLast.answered
            /\ swLast.strategy = "cacheFirst"
            /\ cached # NoMatch =>
                 /\ ~swLast.fetched
                 /\ swLast.result = cached
                 /\ stored = cached
            /\ cached = NoMatch =>
                 /\ swLast.fetched
                 /\ swLast.net = "error" =>
                      (swLast.result = Rejected /\ stored = NoMatch)
                 /\ swLast.net # "error" =>
                      /\ swLast.result = Response(request.url, swLast.net, "network")
                      /\ (stored # NoMatch) <=> (swLast.net = "200")
                      /\ swLast.net = "200" => stored = swLast.result

C24_Witness ==
  /\ swLast.called
  /\ swLast.strategy = "cacheFirst"
  /\ Match(swLast.before, CACHE_NAME, swLast.request.url) = NoMatch
  /\ swLast.net = "404"
  /\ swLast.result.status = "404"
  /\ Match(cacheStorage, CACHE_NAME, swLast.request.url) = NoMatch

\* C25: whenever the picker calls onSelect, the identifier passed is the id
\* of a catalogue timezone that is among the most recently rendered results.
C25_SelectsRenderedTimezone ==
  lastSelect.called =>
    /\ lastSelect.id \in CatalogueIds
    /\ \E i \in DOMAIN lastSelect.rendered :
         DatasetTimezone(lastSelect.rendered[i]) = lastSelect.id

====
